---- MODULE Spec2Model ----
(***************************************************************************)
(* Model of the adaptive staircase controller of                           *)
(* src/handlers/staircasehandler.py (StaircaseHandler, DataPoint,          *)
(* DataWrangler).  One action per public operation: the constructor and    *)
(* add_response.  The private helpers the operations call are operators   *)
(* computed the way the Python code computes them.                         *)
(***************************************************************************)
EXTENDS Integers, Sequences, FiniteSets

(***************************************************************************)
(* Bounds of the model.                                                    *)
(***************************************************************************)
\* Largest number of add_response calls made on one controller.
MaxCalls == 6

\* Constructor arguments the model draws from.
StartVals == {52, 60, 78}
StepSizeLists == {<<4>>, <<8, 4>>}
NUpVals == {1, 2}
NDownVals == {1, 2}
NTrialsVals == {2, 3}
NReversalsVals == {1, 2}
MinVals == {50}
MaxVals == {80}

\* Values passed to add_response: correct, incorrect, and a malformed one.
Responses == {1, -1, 0}

\* Largest number of rows of a trial matrix.
MaxRows == 3

\* Largest number of next() calls made after the last trial was served.
MaxExtraCalls == 2

\* Rows of the trial matrices, initial parameter values and step-size
\* lists handed to the trial handlers.
Rows == {1, 3}
Parameters == {65}
StepLists == {<<4>>, <<4, 2>>, <<4, 2, 2, 1>>}

VARIABLES
    pc,             \* "new": before __init__; "ready": object built;
                    \* "failed": __init__ raised ValueError
    args,           \* the constructor arguments (never change)
    response,       \* argument of the most recent add_response call
    current_level,  \* self.current_level
    nUp,            \* self.nUp
    nDown,          \* self.nDown
    scores,         \* self.scores (full response history)
    level_tracker,  \* self._level_tracker (response window)
    step_index,     \* self._step_index (0-based, as in the code)
    trial_num,      \* self._trial_num
    n_back,         \* self._n_back
    status,         \* self.status: TRUE for go, FALSE for stop
    datapoints,     \* self.dw.datapoints (the trial log)
    twin,           \* a second StaircaseHandler object, as a record of
                    \* the same attributes (used where two controllers
                    \* are run side by side)
    views,          \* the lists plot_data last took from the DataWrangler
    th,             \* a TrialHandler object, as a record of its attributes
    ath             \* an AdaptiveTrialHandler object, likewise

fields == <<current_level, nUp, nDown, scores, level_tracker, step_index,
            trial_num, n_back, status, datapoints>>

vars == <<pc, args, response, current_level, nUp, nDown, scores,
          level_tracker, step_index, trial_num, n_back, status, datapoints,
          twin, views, th, ath>>

\* The variables no StaircaseHandler method touches.
aside == <<views, th, ath>>

(***************************************************************************)
(* Helpers standing for Python / numpy primitives.                         *)
(***************************************************************************)
\* np.ones(n)
ones(n) == [i \in 1..n |-> 1]

\* Python slice s[-n:]
last_n(s, n) ==
    IF n = 0 \/ n >= Len(s) THEN s
    ELSE SubSeq(s, Len(s) - n + 1, Len(s))

\* `x in s` for a list s
contains(s, x) == \E i \in 1..Len(s) : s[i] = x

(***************************************************************************)
(* DataWrangler                                                            *)
(***************************************************************************)
is_reversal(datum) == datum.reversal

is_correct(datum) == datum.response = 1

is_incorrect(datum) == datum.response = -1

\* Variant: everything that is not incorrect counts as correct.
get_correct_not_incorrect(dps) == SelectSeq(dps, LAMBDA d : d.response # -1)

\* _get_correct
get_correct(dps) == SelectSeq(dps, is_correct)

\* _get_incorrect
get_incorrect(dps) == SelectSeq(dps, is_incorrect)

\* Variant: the list is started afresh with the new point.
new_data_point_reset(dps, dp) == <<dp>>

\* Variant: the new point is put at the front of the list.
new_data_point_front(dps, dp) == <<dp>> \o dps

\* new_data_point: the new list of data points
new_data_point(dps, dp) == Append(dps, dp)

get_reversals(dps) == SelectSeq(dps, is_reversal)

(***************************************************************************)
(* StaircaseHandler helpers                                                *)
(***************************************************************************)
\* Variant: the configured rule is used whatever rapid_descend says.
up_down_rule_on_init_as_given(rapid, up_arg, down_arg) ==
    [nUp |-> up_arg, nDown |-> down_arg]

\* __init__: the up/down rule assigned from rapid_descend
up_down_rule_on_init(rapid, up_arg, down_arg) ==
    IF rapid THEN [nUp |-> 1, nDown |-> 1]
    ELSE [nUp |-> up_arg, nDown |-> down_arg]

\* Variant: equality is rejected too.
too_few_reversals_strict(nReversals, step_sizes) ==
    nReversals <= Len(step_sizes)

\* The guard of the ValueError in __init__.
too_few_reversals(nReversals, step_sizes) == nReversals < Len(step_sizes)

\* Variant: trial numbers counted from 1.
add_data_point_one_based(tn, level, resp) ==
    [trial_number |-> tn + 1, level |-> level, response |-> resp]

\* add_data_point: the record as filled in before the reversal flag is set.
add_data_point(tn, level, resp) ==
    [trial_number |-> tn, level |-> level, response |-> resp]

\* _handle_response: the new value of a response list (scores and
\* _level_tracker are appended to alike); anything but 1 / -1 is only logged.
handle_response(lst, resp) ==
    IF resp = 1 THEN Append(lst, 1)
    ELSE IF resp = -1 THEN Append(lst, -1)
    ELSE lst

\* Variant: only the correct-then-incorrect pattern is looked for.
calc_reversals_one_pattern(sc, nD, nB) ==
    last_n(sc, nB) = Append(ones(nD), -1)

\* _calc_reversals
calc_reversals(sc, nD, nB) ==
    LET correct_vals == ones(nD)
        reversal_1 == Append(correct_vals, -1)
        reversal_2 == <<-1>> \o correct_vals
    IN  last_n(sc, nB) = reversal_1 \/ last_n(sc, nB) = reversal_2

\* Variant: the reversals are counted without the current trial's record.
calc_next_step_size_stale(dps, step_sizes) ==
    LET idx == Len(get_reversals(SubSeq(dps, 1, Len(dps) - 1)))
    IN  IF idx >= Len(step_sizes) THEN Len(step_sizes) - 1 ELSE idx

\* Variant: past the end of the schedule the first step size is taken again.
calc_next_step_size_wrap(dps, step_sizes) ==
    LET idx == Len(get_reversals(dps))
    IN  IF idx >= Len(step_sizes) THEN 0 ELSE idx

\* _calc_next_step_size: the new _step_index
calc_next_step_size(dps, step_sizes) ==
    LET idx == Len(get_reversals(dps))
    IN  IF idx >= Len(step_sizes) THEN Len(step_sizes) - 1 ELSE idx

\* Variant: the lower limit is not enforced.
clamp_level_no_min(level, min_val, max_val) ==
    IF level > max_val THEN max_val ELSE level

\* Variant: both branches assign max_val.
clamp_level_both_max(level, min_val, max_val) ==
    IF level > max_val THEN max_val
    ELSE IF level < min_val THEN max_val
    ELSE level

\* _calc_level, second half: keep the level within the provided limits
clamp_level(level, min_val, max_val) ==
    IF level > max_val THEN max_val
    ELSE IF level < min_val THEN min_val
    ELSE level

\* Variant: the tracker is tested with all() instead of array_equal, so
\* any non-empty run of 1s lowers the level.
calc_level_all(level, tracker, nD, step, min_val, max_val) ==
    LET adj == IF Len(tracker) > 0 /\ \A i \in 1..Len(tracker) : tracker[i] = 1
                 THEN [level |-> level - step, tracker |-> <<>>]
               ELSE IF contains(tracker, -1)
                 THEN [level |-> level + step, tracker |-> <<>>]
               ELSE [level |-> level, tracker |-> tracker]
    IN  [level   |-> clamp_level(adj.level, min_val, max_val),
         tracker |-> adj.tracker]

\* Variant: the level is raised only when the tracker is exactly [-1].
calc_level_lone_incorrect(level, tracker, nD, step, min_val, max_val) ==
    LET adj == IF tracker = ones(nD)
                 THEN [level |-> level - step, tracker |-> <<>>]
               ELSE IF tracker = <<-1>>
                 THEN [level |-> level + step, tracker |-> <<>>]
               ELSE [level |-> level, tracker |-> tracker]
    IN  [level   |-> clamp_level(adj.level, min_val, max_val),
         tracker |-> adj.tracker]

\* Variant: the tracker is not emptied when the level is lowered.
calc_level_keep_tracker(level, tracker, nD, step, min_val, max_val) ==
    LET adj == IF tracker = ones(nD)
                 THEN [level |-> level - step, tracker |-> tracker]
               ELSE IF contains(tracker, -1)
                 THEN [level |-> level + step, tracker |-> <<>>]
               ELSE [level |-> level, tracker |-> tracker]
    IN  [level   |-> clamp_level(adj.level, min_val, max_val),
         tracker |-> adj.tracker]

\* _calc_level: new current_level and _level_tracker.  step is
\* step_sizes[_step_index].
calc_level(level, tracker, nD, step, min_val, max_val) ==
    LET adj == IF tracker = ones(nD)
                 THEN [level |-> level - step, tracker |-> <<>>]
               ELSE IF contains(tracker, -1)
                 THEN [level |-> level + step, tracker |-> <<>>]
               ELSE [level |-> level, tracker |-> tracker]
    IN  [level   |-> clamp_level(adj.level, min_val, max_val),
         tracker |-> adj.tracker]

\* Variant: the counter is advanced by two.
increase_trial_num_twice(tn) == tn + 2

\* _increase_trial_num
increase_trial_num(tn) == tn + 1

\* Variant: the rule is switched only once a second reversal is logged.
check_up_down_rule_late(rapid, dps, up_arg, down_arg, curUp, curDown, curBack) ==
    IF rapid /\ Len(get_reversals(dps)) > 1
    THEN [nUp |-> up_arg, nDown |-> down_arg, n_back |-> down_arg + 1]
    ELSE [nUp |-> curUp, nDown |-> curDown, n_back |-> curBack]

\* Variant: the up argument is copied into nDown as well.
check_up_down_rule_up_for_down(rapid, dps, up_arg, down_arg, curUp, curDown, curBack) ==
    IF rapid /\ Len(get_reversals(dps)) >= 1
    THEN [nUp |-> up_arg, nDown |-> up_arg, n_back |-> up_arg + 1]
    ELSE [nUp |-> curUp, nDown |-> curDown, n_back |-> curBack]

\* Variant: _n_back is left as it was when the rule is switched.
check_up_down_rule_stale_back(rapid, dps, up_arg, down_arg, curUp, curDown, curBack) ==
    IF rapid /\ Len(get_reversals(dps)) >= 1
    THEN [nUp |-> up_arg, nDown |-> down_arg, n_back |-> curBack]
    ELSE [nUp |-> curUp, nDown |-> curDown, n_back |-> curBack]

\* _check_up_down_rule (called only when rapid_descend): new nUp, nDown,
\* _n_back
check_up_down_rule(rapid, dps, up_arg, down_arg, curUp, curDown, curBack) ==
    IF rapid /\ Len(get_reversals(dps)) >= 1
    THEN [nUp |-> up_arg, nDown |-> down_arg, n_back |-> down_arg + 1]
    ELSE [nUp |-> curUp, nDown |-> curDown, n_back |-> curBack]

\* Variant: either threshold alone ends the staircase.
check_for_end_of_staircase_either(tn, nTrials, dps, nReversals, st) ==
    IF tn >= nTrials \/ Len(get_reversals(dps)) >= nReversals
    THEN FALSE
    ELSE st

\* Variant: one reversal more than asked for is needed.
check_for_end_of_staircase_strict(tn, nTrials, dps, nReversals, st) ==
    IF tn >= nTrials /\ Len(get_reversals(dps)) > nReversals
    THEN FALSE
    ELSE st

\* Variant: status is recomputed on every call, with the reversal count
\* tested for equality.
check_for_end_of_staircase_recomputed(tn, nTrials, dps, nReversals, st) ==
    IF tn >= nTrials /\ Len(get_reversals(dps)) = nReversals
    THEN FALSE
    ELSE TRUE

\* _check_for_end_of_staircase: new status
check_for_end_of_staircase(tn, nTrials, dps, nReversals, st) ==
    IF tn >= nTrials /\ Len(get_reversals(dps)) >= nReversals
    THEN FALSE
    ELSE st

(***************************************************************************)
(* A StaircaseHandler object as a record of its attributes.                *)
(***************************************************************************)
\* The attributes before __init__ has run on the arguments a.
no_object(a) ==
    [pc |-> "new", args |-> a, current_level |-> 0, nUp |-> 0, nDown |-> 0,
     scores |-> <<>>, level_tracker |-> <<>>, step_index |-> -1,
     trial_num |-> -1, n_back |-> 0, status |-> FALSE, datapoints |-> <<>>]

\* The controller held in the variables.
Self ==
    [pc |-> pc, args |-> args, current_level |-> current_level, nUp |-> nUp,
     nDown |-> nDown, scores |-> scores, level_tracker |-> level_tracker,
     step_index |-> step_index, trial_num |-> trial_num, n_back |-> n_back,
     status |-> status, datapoints |-> datapoints]

\* __init__ on the arguments a: the attributes it leaves.  When it raises,
\* only the attributes assigned before the raise are set.
construct(a) ==
    LET rule == up_down_rule_on_init(a.rapid_descend, a.nUp, a.nDown)
        assigned == [no_object(a) EXCEPT !.current_level = a.start_val,
                                         !.nUp = rule.nUp,
                                         !.nDown = rule.nDown]
    IN  IF too_few_reversals(a.nReversals, a.step_sizes)
        THEN [assigned EXCEPT !.pc = "failed"]
        ELSE [assigned EXCEPT !.pc = "ready",
                              !.scores = <<>>,
                              !.level_tracker = <<>>,
                              !.step_index = 0,
                              !.trial_num = 0,
                              !.n_back = rule.nDown + 1,
                              !.status = TRUE,
                              !.datapoints = <<>>]

\* add_response(r) on the object self: the attributes it leaves.
add_response(self, r) ==
    LET a     == self.args
        dp0   == add_data_point(self.trial_num, self.current_level, r)
        sc    == handle_response(self.scores, r)
        lt    == handle_response(self.level_tracker, r)
        dp    == [trial_number |-> dp0.trial_number,
                  level        |-> dp0.level,
                  response     |-> dp0.response,
                  reversal     |-> calc_reversals(sc, self.nDown,
                                                  self.n_back)]
        dps   == new_data_point(self.datapoints, dp)
        si    == calc_next_step_size(dps, a.step_sizes)
        lv    == calc_level(self.current_level, lt, self.nDown,
                            a.step_sizes[si + 1], a.min_val, a.max_val)
        rule  == check_up_down_rule(a.rapid_descend, dps, a.nUp, a.nDown,
                                    self.nUp, self.nDown, self.n_back)
    IN  [self EXCEPT
            !.scores = sc,
            !.datapoints = dps,
            !.step_index = si,
            !.current_level = lv.level,
            !.level_tracker = lv.tracker,
            !.nUp = rule.nUp,
            !.nDown = rule.nDown,
            !.n_back = rule.n_back,
            !.status = check_for_end_of_staircase(self.trial_num, a.nTrials,
                                                  dps, a.nReversals,
                                                  self.status),
            !.trial_num = increase_trial_num(self.trial_num)]

\* The variables take the attributes of the object obj.
Becomes(obj) ==
    /\ pc' = obj.pc
    /\ current_level' = obj.current_level
    /\ nUp' = obj.nUp
    /\ nDown' = obj.nDown
    /\ scores' = obj.scores
    /\ level_tracker' = obj.level_tracker
    /\ step_index' = obj.step_index
    /\ trial_num' = obj.trial_num
    /\ n_back' = obj.n_back
    /\ status' = obj.status
    /\ datapoints' = obj.datapoints
    /\ UNCHANGED args

(***************************************************************************)
(* Initial state: the arguments are chosen, no object exists yet.          *)
(***************************************************************************)
ArgSets ==
    [start_val : StartVals, step_sizes : StepSizeLists, nUp : NUpVals,
     nDown : NDownVals, nTrials : NTrialsVals, nReversals : NReversalsVals,
     rapid_descend : BOOLEAN, min_val : MinVals, max_val : MaxVals]

\* plot_data has not run.
no_views == [correct |-> <<>>, incorrect |-> <<>>, reversals |-> <<>>,
             taken |-> FALSE]

\* No trial handler has been built.
no_handler == [built |-> FALSE]

Init ==
    /\ pc = "new"
    /\ args \in ArgSets
    /\ response = 0
    /\ current_level = 0
    /\ nUp = 0
    /\ nDown = 0
    /\ scores = <<>>
    /\ level_tracker = <<>>
    /\ step_index = -1
    /\ trial_num = -1
    /\ n_back = 0
    /\ status = FALSE
    /\ datapoints = <<>>
    /\ twin = no_object(args)
    /\ views = no_views
    /\ th = no_handler
    /\ ath = no_handler

(***************************************************************************)
(* StaircaseHandler.__init__                                               *)
(***************************************************************************)
Construct ==
    /\ pc = "new"
    /\ Becomes(construct(args))
    /\ UNCHANGED <<response, twin, aside>>

(***************************************************************************)
(* StaircaseHandler.add_response                                           *)
(***************************************************************************)
AddResponse(r) ==
    /\ pc = "ready"
    /\ trial_num < MaxCalls
    /\ response' = r
    /\ Becomes(add_response(Self, r))
    /\ UNCHANGED <<twin, aside>>

Next ==
    \/ Construct
    \/ \E r \in Responses : AddResponse(r)

Spec == Init /\ [][Next]_vars

\* The experiment loop keeps presenting trials: as long as a call can be
\* made, one is made.  The runs start near min_val, from a narrower choice
\* of arguments.
InitLive ==
    /\ Init
    /\ args.start_val = 52
    /\ args.step_sizes = <<4>>
    /\ args.nUp = 1
    /\ args.nTrials = 3

SpecLive == InitLive /\ [][Next]_vars /\ WF_vars(Next)

(***************************************************************************)
(* Two controllers built from arguments that differ in nUp only and fed    *)
(* the same responses.                                                     *)
(***************************************************************************)
ConstructPair ==
    /\ pc = "new"
    /\ Becomes(construct(args))
    /\ \E u \in NUpVals \ {args.nUp} :
           twin' = construct([args EXCEPT !.nUp = u])
    /\ UNCHANGED <<response, aside>>

AddResponsePair(r) ==
    /\ pc = "ready"
    /\ twin.pc = "ready"
    /\ trial_num < MaxCalls
    /\ response' = r
    /\ Becomes(add_response(Self, r))
    /\ twin' = add_response(twin, r)
    /\ UNCHANGED aside

NextPair ==
    \/ ConstructPair
    \/ \E r \in Responses : AddResponsePair(r)

SpecPair == Init /\ [][NextPair]_vars

(***************************************************************************)
(* StaircaseHandler.plot_data, as far as the trial log is concerned: the   *)
(* three filtered lists are taken from the DataWrangler; the drawing       *)
(* itself is left out.                                                     *)
(***************************************************************************)
PlotData ==
    /\ pc = "ready"
    /\ views' = [correct   |-> get_correct(datapoints),
                 incorrect |-> get_incorrect(datapoints),
                 reversals |-> get_reversals(datapoints),
                 taken     |-> TRUE]
    /\ UNCHANGED <<pc, args, response, fields, twin, th, ath>>

NextLog ==
    \/ Construct
    \/ \E r \in Responses : AddResponse(r)
    \/ PlotData

SpecLog == Init /\ [][NextLog]_vars

(***************************************************************************)
(* TrialHandler (src/handlers/trialhandler.py) and AdaptiveTrialHandler    *)
(* (src/handlers/trialhandler_adaptive.py).  A trial matrix is the         *)
(* sequence of its rows.  The field raised tells how the last next() call  *)
(* ended; trial_info is no_trial_info until a call has set it.  In a list  *)
(* of step sizes None is <<>> and the number x is <<x>>.                   *)
(***************************************************************************)
TrialMatrices == UNION {[1..n -> Rows] : n \in 1..MaxRows}

no_trial_info == [row |-> 0, trial |-> 0]

\* TrialHandler.__init__
th_init(trials_df) ==
    [built |-> TRUE, trials_df |-> trials_df, trial_num |-> 0, index |-> -1,
     total_trials |-> Len(trials_df), remaining_trials |-> Len(trials_df),
     finished |-> FALSE, trial_info |-> no_trial_info, raised |-> "none"]

\* next(), "Update counts": common to both handlers
update_counts(self) ==
    [self EXCEPT !.trial_num = self.trial_num + 1,
                 !.index = self.index + 1,
                 !.remaining_trials = self.remaining_trials - 1]

\* Variant: the trial stored with the row is the 0-based index.
th_next_zero_based(self) ==
    LET counted == update_counts(self)
    IN  IF counted.trial_num > counted.total_trials
        THEN [counted EXCEPT !.finished = TRUE, !.raised = "IndexError"]
        ELSE [counted EXCEPT
                !.trial_info = [row   |-> counted.trials_df[counted.index + 1],
                                trial |-> counted.index],
                !.raised = "none"]

\* Variant: the end is declared on the call that serves the last trial.
th_next_early_end(self) ==
    LET counted == update_counts(self)
    IN  IF counted.trial_num >= counted.total_trials
        THEN [counted EXCEPT !.finished = TRUE, !.raised = "IndexError"]
        ELSE [counted EXCEPT
                !.trial_info = [row   |-> counted.trials_df[counted.index + 1],
                                trial |-> counted.trial_num],
                !.raised = "none"]

\* TrialHandler.next
th_next(self) ==
    LET counted == update_counts(self)
    IN  IF counted.trial_num > counted.total_trials
        THEN [counted EXCEPT !.finished = TRUE, !.raised = "IndexError"]
        ELSE [counted EXCEPT
                !.trial_info = [row   |-> counted.trials_df[counted.index + 1],
                                trial |-> counted.trial_num],
                !.raised = "none"]

\* Variant: no leading None is put in front of the step sizes.
prepare_steps_no_offset(step_sizes, total_trials) ==
    LET num_steps == Len(step_sizes)
    IN  IF num_steps < total_trials
        THEN step_sizes \o [i \in 1..(total_trials - num_steps) |->
                                step_sizes[num_steps]]
        ELSE step_sizes

\* AdaptiveTrialHandler._prepare_steps: the new step_sizes
prepare_steps(step_sizes, total_trials) ==
    LET num_steps == Len(step_sizes)
        padded == IF num_steps < total_trials
                  THEN step_sizes \o [i \in 1..(total_trials - num_steps) |->
                                          step_sizes[num_steps]]
                  ELSE step_sizes
    IN  <<(<<>>)>> \o padded

\* A list of numbers as a list of step sizes.
as_steps(nums) == [i \in 1..Len(nums) |-> <<nums[i]>>]

\* AdaptiveTrialHandler.__init__; given_steps keeps the list as supplied.
ath_init(trials_df, parameter, step_sizes) ==
    [built |-> TRUE, trials_df |-> trials_df, trial_num |-> 0, index |-> -1,
     total_trials |-> Len(trials_df), remaining_trials |-> Len(trials_df),
     parameter |-> parameter, given_steps |-> step_sizes,
     step_sizes |-> prepare_steps(as_steps(step_sizes), Len(trials_df)),
     start_flag |-> TRUE, finished |-> FALSE,
     trial_info |-> [row |-> 0, trial |-> 0, parameter |-> 0,
                     step_size |-> <<>>, response |-> 0],
     response |-> 0, raised |-> "none"]

\* AdaptiveTrialHandler._adjust_paramter: the new parameter (the caller
\* sees to the ValueError of any other response)
adjust_paramter(parameter, step, resp) ==
    IF resp = 1 THEN parameter - step[1]
    ELSE IF resp = -1 THEN parameter + step[1]
    ELSE parameter

\* AdaptiveTrialHandler.next
ath_next(self, resp) ==
    LET counted == [update_counts(self) EXCEPT !.response = resp]
        step == counted.step_sizes[counted.index + 1]
    IN  IF counted.trial_num > counted.total_trials
        THEN [counted EXCEPT !.finished = TRUE, !.raised = "IndexError"]
        ELSE IF ~counted.start_flag /\ resp \notin {1, -1}
        THEN [counted EXCEPT !.raised = "ValueError"]
        ELSE LET param == IF ~counted.start_flag
                          THEN adjust_paramter(counted.parameter, step, resp)
                          ELSE counted.parameter
             IN  [counted EXCEPT
                    !.parameter = param,
                    !.start_flag = FALSE,
                    !.trial_info =
                        [row       |-> counted.trials_df[counted.index + 1],
                         trial     |-> counted.trial_num,
                         parameter |-> param,
                         step_size |-> step,
                         response  |-> resp],
                    !.raised = "none"]

\* The staircase variables when only trial handlers are run.
InitTrials ==
    /\ pc = "new"
    /\ args = [start_val |-> 60, step_sizes |-> <<8, 4>>, nUp |-> 1,
               nDown |-> 2, nTrials |-> 2, nReversals |-> 2,
               rapid_descend |-> FALSE, min_val |-> 50, max_val |-> 80]
    /\ response = 0
    /\ current_level = 0
    /\ nUp = 0
    /\ nDown = 0
    /\ scores = <<>>
    /\ level_tracker = <<>>
    /\ step_index = -1
    /\ trial_num = -1
    /\ n_back = 0
    /\ status = FALSE
    /\ datapoints = <<>>
    /\ twin = no_object(args)
    /\ views = no_views
    /\ \E df \in TrialMatrices :
          /\ th = th_init(df)
          /\ \E p \in Parameters, st \in StepLists : ath = ath_init(df, p, st)

staircase == <<pc, args, response, fields, twin, views>>

THNext ==
    /\ th.trial_num < th.total_trials + MaxExtraCalls
    /\ th' = th_next(th)
    /\ UNCHANGED <<staircase, ath>>

ATHNext(r) ==
    /\ ath.trial_num < ath.total_trials + MaxExtraCalls
    /\ ath' = ath_next(ath, r)
    /\ UNCHANGED <<staircase, th>>

NextTrials ==
    \/ THNext
    \/ \E r \in Responses : ATHNext(r)

SpecTrials == InitTrials /\ [][NextTrials]_vars

(***************************************************************************)
(* Vocabulary of the properties, written from the claims' wording.         *)
(***************************************************************************)
\* The controller exists and at least one add_response call has returned.
Called == pc = "ready" /\ trial_num >= 1

\* Number of records flagged as reversal.
ReversalCount(dps) == Cardinality({i \in 1..Len(dps) : dps[i].reversal})

\* h ends with n entries +1 followed by one -1.
EndsCorrectThenIncorrect(h, n) ==
    /\ Len(h) >= n + 1
    /\ h[Len(h)] = -1
    /\ \A i \in 1..n : h[Len(h) - i] = 1

\* h ends with one -1 followed by n entries +1.
EndsIncorrectThenCorrect(h, n) ==
    /\ Len(h) >= n + 1
    /\ h[Len(h) - n] = -1
    /\ \A i \in 0..(n - 1) : h[Len(h) - i] = 1

\* w is exactly n entries, all +1.
AllCorrect(w, n) == Len(w) = n /\ \A i \in 1..Len(w) : w[i] = 1

\* The step size in force after a step: step_sizes[step_index].
StepUsed == args.step_sizes[step_index' + 1]

\* The most recent record of the trial log, before and after a step.
LastRecord == datapoints[Len(datapoints)]
NewRecord == datapoints'[Len(datapoints')]

Lower(a, b) == IF a < b THEN a ELSE b
Higher(a, b) == IF a > b THEN a ELSE b

\* C1: after every add_response call, in normal and in rapid-descend mode,
\* min_val <= current_level <= max_val (the start value being within the
\* limits).
C1_LevelWithinLimits ==
    Called => /\ args.min_val <= current_level
              /\ current_level <= args.max_val

\* C1 witness: in rapid-descend mode an incorrect response at 78 asked for a
\* level above max_val and the level was left at max_val.
C1_Witness ==
    /\ Called
    /\ args.rapid_descend
    /\ response = -1
    /\ LastRecord.level = 78
    /\ current_level = args.max_val

\* C2 (as claimed): once trial_count + 1 >= n_trials and the reversal count
\* has reached n_reversals in a call, the controller is Finished when that
\* call returns.
C2_FinishedWhenBothThresholdsMet ==
    (Called /\ trial_num >= args.nTrials
            /\ ReversalCount(datapoints) >= args.nReversals)
        => status = FALSE

\* C3 (as claimed): an add_response call with a value other than +1 / -1
\* leaves every piece of controller state, the trial log included,
\* unchanged.
C3_InvalidResponseChangesNothing ==
    [][(pc = "ready" /\ response' \notin {1, -1}) => UNCHANGED fields]_vars

\* C4: construction fails exactly when n_reversals < len(step_sizes) and
\* then nothing can be done with the controller; otherwise (equality
\* included) it succeeds with trial counter 0, empty response history and
\* window, step index 0 and status Running.
C4_ConstructionChecksReversals ==
    [][/\ pc # "failed"
       /\ pc = "new" =>
            IF args.nReversals < Len(args.step_sizes)
            THEN pc' = "failed"
            ELSE /\ pc' = "ready"
                 /\ trial_num' = 0
                 /\ scores' = <<>>
                 /\ level_tracker' = <<>>
                 /\ step_index' = 0
                 /\ status' = TRUE
                 /\ datapoints' = <<>>]_vars

\* C4 witness: a construction with fewer reversals than step sizes failed.
C4_Witness ==
    /\ pc = "failed"
    /\ args.nReversals < Len(args.step_sizes)

\* C5: the reversal flag computed in a call is true iff the last
\* effective_n_back = effective_n_down + 1 entries of the response history
\* are effective_n_down +1s then a -1, or a -1 then effective_n_down +1s;
\* with fewer entries than effective_n_back it is false.
C5_ReversalDetection ==
    [][pc = "ready" =>
        /\ n_back = nDown + 1
        /\ NewRecord.reversal =
              (\/ EndsCorrectThenIncorrect(scores', nDown)
               \/ EndsIncorrectThenCorrect(scores', nDown))
        /\ (Len(scores') < n_back => ~NewRecord.reversal)]_vars

\* C5 witness: with n_down = 2 the history -1, +1, +1 has just been flagged.
C5_Witness ==
    /\ Called
    /\ nDown = 2
    /\ Len(scores) >= 3
    /\ last_n(scores, 3) = <<-1, 1, 1>>
    /\ response = 1
    /\ LastRecord.reversal

\* C6: a +1 response is appended to the response window; the level is
\* lowered by step_sizes[step_index] (and not below min_val) and the window
\* cleared exactly when the window then holds effective_n_down +1s;
\* otherwise the level is unchanged and the accumulated +1s are kept.
C6_CorrectResponse ==
    [][(pc = "ready" /\ response' = 1) =>
        LET window == Append(level_tracker, 1)
        IN  IF AllCorrect(window, nDown)
            THEN /\ current_level' =
                      Higher(current_level - StepUsed, args.min_val)
                 /\ level_tracker' = <<>>
            ELSE /\ current_level' = current_level
                 /\ level_tracker' = window]_vars

\* C6 witness: start 60, steps [8,4], n_down 2, responses 1, 1: the levels
\* presented were 60, 60 and the level is now 52.
C6_Witness ==
    /\ Called
    /\ ~args.rapid_descend
    /\ args.nDown = 2
    /\ scores = <<1, 1>>
    /\ Len(datapoints) = 2
    /\ datapoints[1].level = 60
    /\ datapoints[2].level = 60
    /\ current_level = 52
    /\ level_tracker = <<>>

\* C7: any -1 response raises the level by step_sizes[step_index] (before
\* the clamp to max_val) in the same call, however many +1s the response
\* window held, and leaves the window empty.
C7_IncorrectResponse ==
    [][(pc = "ready" /\ response' = -1) =>
        /\ current_level' = Lower(current_level + StepUsed, args.max_val)
        /\ level_tracker' = <<>>]_vars

\* C7 witness: with n_down = 2 a -1 arrived while one +1 was accumulated;
\* the level went up by the step and the window is empty.
C7_Witness ==
    /\ Called
    /\ ~args.rapid_descend
    /\ args.nDown = 2
    /\ scores = <<1, -1>>
    /\ Len(datapoints) = 2
    /\ current_level = datapoints[2].level + args.step_sizes[1]
    /\ level_tracker = <<>>

\* C8: in a call with a valid response the step index is min(r, len - 1)
\* with r the reversal count including the current trial, and the level
\* change made in that call uses that step size: a trial flagged as a
\* reversal already moves the level by the next step size.
C8_StepIndexBeforeLevel ==
    [][(pc = "ready" /\ response' \in {1, -1}) =>
        LET r    == ReversalCount(datapoints')
            idx  == Lower(r, Len(args.step_sizes) - 1)
            step == args.step_sizes[idx + 1]
        IN  /\ step_index' = idx
            /\ (NewRecord.reversal /\ response' = -1) =>
                 current_level' = Lower(current_level + step, args.max_val)
            /\ (NewRecord.reversal /\ response' = 1
                    /\ AllCorrect(Append(level_tracker, 1), nDown)) =>
                 current_level' = Higher(current_level - step, args.min_val)]_vars

\* C8 witness: start 60, steps [8,4], n_down 2, responses 1, 1, -1: levels
\* presented 60, 60, 52, the third trial is the first reversal and the level
\* is 56 (raised by the second step size).
C8_Witness ==
    /\ Called
    /\ args.step_sizes = <<8, 4>>
    /\ scores = <<1, 1, -1>>
    /\ Len(datapoints) = 3
    /\ datapoints[3].level = 52
    /\ datapoints[3].reversal
    /\ ReversalCount(datapoints) = 1
    /\ step_index = 1
    /\ current_level = 56

\* C9: the record appended by the k-th call carries trial number k - 1 (the
\* counter before the call), the level presented on that trial (the level
\* before the call's adjustment), the response and the trial's reversal
\* flag.
C9_RecordContents ==
    [][pc = "ready" =>
        /\ Len(datapoints') = Len(datapoints) + 1
        /\ trial_num = Len(datapoints)
        /\ NewRecord.trial_number = trial_num
        /\ NewRecord.level = current_level
        /\ NewRecord.response = response'
        /\ NewRecord.reversal =
              (\/ EndsCorrectThenIncorrect(scores', nDown)
               \/ EndsIncorrectThenCorrect(scores', nDown))]_vars

\* C9 witness: the second record has trial number 1 and the level the first
\* call left, which differs from the level of the first record.
C9_Witness ==
    /\ Called
    /\ Len(datapoints) = 2
    /\ datapoints[2].trial_number = 1
    /\ datapoints[1].level = 60
    /\ datapoints[2].level = 68
    /\ datapoints[2].response = 1

\* C10: an adjustment that would leave [min_val, max_val] sets the level to
\* exactly the bound it crossed; every adjustment is computed from the
\* level as stored, so nothing of an earlier overshoot is carried over.
C10_ClampDiscardsOvershoot ==
    [][(pc = "ready" /\ response' \in {1, -1}) =>
        LET target ==
              IF response' = -1 THEN current_level + StepUsed
              ELSE IF AllCorrect(Append(level_tracker, 1), nDown)
                   THEN current_level - StepUsed
              ELSE current_level
        IN  /\ target > args.max_val => current_level' = args.max_val
            /\ target < args.min_val => current_level' = args.min_val
            /\ (args.min_val <= target /\ target <= args.max_val) =>
                   current_level' = target]_vars

\* C10 witness: step 4, max 80: -1 at 78 gave 80 (not 82), and the +1 that
\* followed gave 80 - 4 = 76.
C10_Witness ==
    /\ Called
    /\ args.step_sizes = <<4>>
    /\ Len(datapoints) = 2
    /\ datapoints[1].level = 78
    /\ datapoints[1].response = -1
    /\ datapoints[2].level = 80
    /\ datapoints[2].response = 1
    /\ current_level = 76

\* The last n entries of h exist and are all +1.
EndsWithCorrectRun(h, n) ==
    /\ Len(h) >= n
    /\ \A i \in 0..(n - 1) : h[Len(h) - i] = 1

\* C11: whenever status is Finished, at least n_trials responses have been
\* recorded and at least n_reversals records are flagged as reversal; one
\* threshold alone never ends the procedure.
C11_FinishedNeedsBothThresholds ==
    (pc = "ready" /\ status = FALSE) =>
        /\ trial_num >= args.nTrials
        /\ Len(datapoints) >= args.nTrials
        /\ ReversalCount(datapoints) >= args.nReversals

\* C11 witness: the procedure has ended, with three trials asked for and
\* two reversals asked for.
C11_Witness ==
    /\ Called
    /\ status = FALSE
    /\ args.nTrials = 3
    /\ args.nReversals = 2

\* C12: once status is Finished it stays Finished over every later
\* add_response call (so Running -> Finished happens at most once).
C12_FinishedIsFinal ==
    [][(pc = "ready" /\ status = FALSE) => status' = FALSE]_vars

\* C12 witness: a call was made on a controller that had already finished,
\* and one more reversal than asked for has been logged since.
C12_Witness ==
    /\ Called
    /\ status = FALSE
    /\ ReversalCount(datapoints) > args.nReversals
    /\ trial_num >= args.nTrials + 2

\* C13: the trial counter is 0 after construction and every add_response
\* call adds exactly one to it and one record to the log, so after k calls
\* the counter is k and the log holds k records.
C13_TrialCounter ==
    [][/\ (pc = "new" /\ pc' = "ready") =>
            (trial_num' = 0 /\ Len(datapoints') = 0)
       /\ pc = "ready" =>
            /\ trial_num' = trial_num + 1
            /\ Len(datapoints') = Len(datapoints) + 1
            /\ trial_num' = Len(datapoints')]_vars

\* C13 witness: three calls made, counter 3, three records, the last call
\* carrying a malformed response.
C13_Witness ==
    /\ pc = "ready"
    /\ trial_num = 3
    /\ Len(datapoints) = 3
    /\ response = 0

\* C14: from one add_response call to the next the number of records
\* flagged as reversal never decreases and grows by at most one.
C14_ReversalCountMonotone ==
    [][pc = "ready" =>
        \/ ReversalCount(datapoints') = ReversalCount(datapoints)
        \/ ReversalCount(datapoints') = ReversalCount(datapoints) + 1]_vars

\* C14 witness: two reversals logged, the latest record not being one.
C14_Witness ==
    /\ Called
    /\ ReversalCount(datapoints) = 2
    /\ ~LastRecord.reversal

\* C15: after every add_response call step_index is
\* min(reversal_count, len(step_sizes) - 1), hence within
\* [0, len(step_sizes) - 1]; past the end of the schedule the last step
\* size stays in use.
C15_StepIndex ==
    Called =>
        /\ step_index = Lower(ReversalCount(datapoints),
                              Len(args.step_sizes) - 1)
        /\ 0 <= step_index
        /\ step_index <= Len(args.step_sizes) - 1

\* C15 witness: steps [8,4] and three reversals logged: the index stays at
\* the last entry.
C15_Witness ==
    /\ Called
    /\ args.step_sizes = <<8, 4>>
    /\ ReversalCount(datapoints) = 3
    /\ step_index = 1

\* C16: with rapid_descend and no reversal flagged up to and including the
\* current trial, every +1 lowers the level by step_sizes[0] and every -1
\* raises it by step_sizes[0] in the same call (within the limits),
\* whatever n_down was configured.
C16_RapidDescendOneUpOneDown ==
    [][(/\ pc = "ready"
        /\ args.rapid_descend
        /\ response' \in {1, -1}
        /\ ReversalCount(datapoints') = 0) =>
        /\ response' = 1 =>
             current_level' =
                Higher(current_level - args.step_sizes[1], args.min_val)
        /\ response' = -1 =>
             current_level' =
                Lower(current_level + args.step_sizes[1], args.max_val)
        /\ level_tracker' = <<>>]_vars

\* C16 witness: rapid descend with n_down = 2 and steps [8,4]: two +1s
\* took the level from 78 to 70 and then to 62, one step per response.
C16_Witness ==
    /\ Called
    /\ args.rapid_descend
    /\ args.nDown = 2
    /\ args.step_sizes = <<8, 4>>
    /\ scores = <<1, 1>>
    /\ Len(datapoints) = 2
    /\ datapoints[1].level = 78
    /\ datapoints[2].level = 70
    /\ current_level = 62

\* C17: with rapid_descend, every trial up to and including the one on
\* which the first reversal is flagged is detected and adjusted under the
\* 1-down rule; the effective n_down is the configured one from the end of
\* that call on, and on later trials the level goes down only when n_down
\* +1s in a row have accumulated.
C17_SwitchAfterFirstReversal ==
    [][(pc = "ready" /\ args.rapid_descend) =>
        /\ ReversalCount(datapoints) = 0 =>
             /\ nDown = 1
             /\ n_back = 2
             /\ response' = 1 =>
                  current_level' =
                     Higher(current_level - StepUsed, args.min_val)
             /\ response' = -1 =>
                  current_level' =
                     Lower(current_level + StepUsed, args.max_val)
        /\ nDown' = IF ReversalCount(datapoints') >= 1
                    THEN args.nDown ELSE 1
        /\ (ReversalCount(datapoints) >= 1
                /\ current_level' < current_level) =>
             /\ response' = 1
             /\ AllCorrect(Append(level_tracker, 1), args.nDown)
             /\ EndsWithCorrectRun(scores', args.nDown)]_vars

\* C17 witness: rapid descend, n_down = 2, responses +1, -1, +1: the -1 was
\* the first reversal and raised the level at once; the +1 after it left
\* the level alone and waits in the window.
C17_Witness ==
    /\ Called
    /\ args.rapid_descend
    /\ args.nDown = 2
    /\ nDown = 2
    /\ scores = <<1, -1, 1>>
    /\ Len(datapoints) = 3
    /\ datapoints[2].reversal
    /\ datapoints[3].level > datapoints[2].level
    /\ current_level = datapoints[3].level
    /\ level_tracker = <<1>>

\* C20: the trial log is append-only: every add_response call adds one
\* record at the end and the records already in the log keep their place
\* and their fields.
C20_LogAppendOnly ==
    [][pc = "ready" =>
        /\ Len(datapoints') = Len(datapoints) + 1
        /\ \A i \in 1..Len(datapoints) : datapoints'[i] = datapoints[i]]_vars

\* C20 witness: four records, the second flagged as a reversal and still so
\* two calls later.
C20_Witness ==
    /\ Called
    /\ Len(datapoints) = 4
    /\ datapoints[2].reversal
    /\ datapoints[2].trial_number = 1
    /\ ~datapoints[4].reversal

\* C18: two controllers whose arguments differ in n_up only have, after
\* construction and after every call with the same response, the same
\* level, response history and window, step index, effective n_down,
\* counter, status and trial records.
C18_NUpHasNoInfluence ==
    (pc # "new" /\ twin.args.nUp # args.nUp) =>
        /\ twin.pc = pc
        /\ twin.current_level = current_level
        /\ twin.scores = scores
        /\ twin.level_tracker = level_tracker
        /\ twin.step_index = step_index
        /\ twin.nDown = nDown
        /\ twin.n_back = n_back
        /\ twin.trial_num = trial_num
        /\ twin.status = status
        /\ twin.datapoints = datapoints

\* C18 witness: in rapid descend both controllers are past the first
\* reversal, so each has taken over its own n_up, and both have finished.
C18_Witness ==
    /\ Called
    /\ twin.pc = "ready"
    /\ args.rapid_descend
    /\ twin.args = [args EXCEPT !.nUp = twin.args.nUp]
    /\ twin.nUp # nUp
    /\ ReversalCount(datapoints) >= 1
    /\ status = FALSE

\* The k-th position of log whose record satisfies P.
KthIndex(log, P(_), k) ==
    CHOOSE i \in 1..Len(log) :
        P(log[i]) /\ Cardinality({j \in 1..i : P(log[j])}) = k

\* view lists exactly the records of log that satisfy P, in log order.
IsSelection(view, log, P(_)) ==
    /\ Len(view) = Cardinality({i \in 1..Len(log) : P(log[i])})
    /\ \A k \in 1..Len(view) : view[k] = log[KthIndex(log, P, k)]

\* C21: the filtered views are exactly the records with response +1, with
\* response -1 and with a true reversal flag, each in insertion order;
\* taking them leaves the log as it is; the reversal count the controller
\* works with is the size of the reversals view.
C21_FilteredViews ==
    [][views' # views =>
        /\ datapoints' = datapoints
        /\ IsSelection(views'.correct, datapoints,
                       LAMBDA d : d.response = 1)
        /\ IsSelection(views'.incorrect, datapoints,
                       LAMBDA d : d.response = -1)
        /\ IsSelection(views'.reversals, datapoints,
                       LAMBDA d : d.reversal)
        /\ Called =>
             step_index = Lower(Len(views'.reversals),
                                Len(args.step_sizes) - 1)]_vars

\* C21 witness: views were taken of a log holding correct, incorrect and
\* malformed responses and a reversal that is not the first record.
C21_Witness ==
    /\ Called
    /\ views.taken
    /\ Len(views.correct) >= 2
    /\ Len(views.incorrect) >= 1
    /\ Len(views.reversals) >= 1
    /\ views.reversals[1].trial_number >= 1
    /\ Len(views.correct) + Len(views.incorrect) < Len(datapoints)
    /\ Len(views.correct) + Len(views.incorrect) + 1 >= Len(datapoints)

\* C25: between calls the effective n_down is 1 if rapid_descend is set
\* and no record is flagged as a reversal, and the configured n_down
\* otherwise; the effective n_back is always the effective n_down plus one.
C25_EffectiveRule ==
    pc = "ready" =>
        /\ nDown = IF args.rapid_descend /\ ReversalCount(datapoints) = 0
                   THEN 1 ELSE args.nDown
        /\ n_back = nDown + 1

\* C25 witness: rapid descend with n_down = 2, past the first reversal: the
\* effective rule is 2 down with a window of 3.
C25_Witness ==
    /\ Called
    /\ args.rapid_descend
    /\ args.nDown = 2
    /\ ReversalCount(datapoints) = 1
    /\ nDown = 2
    /\ n_back = 3

\* C26: the response window never holds more than effective_n_down entries,
\* not even within a call; it is empty right after every call that applied
\* a level change; between calls it holds +1s only, fewer than
\* effective_n_down of them, the rapid-descend switch-over included.
C26_ResponseWindow ==
    [][/\ (pc = "new" /\ pc' = "ready") => Len(level_tracker') < nDown'
       /\ pc = "ready" =>
            LET window == IF response' \in {1, -1}
                          THEN Append(level_tracker, response')
                          ELSE level_tracker
            IN  /\ Len(window) <= nDown
                /\ (response' = -1 \/ (response' = 1
                                        /\ AllCorrect(window, nDown))) =>
                      level_tracker' = <<>>
                /\ current_level' # current_level => level_tracker' = <<>>
                /\ Len(level_tracker') < nDown'
                /\ \A i \in 1..Len(level_tracker') :
                      level_tracker'[i] = 1]_vars

\* C26 witness: rapid descend with n_down = 2: -1, +1 (first reversal, the
\* rule switches with the window empty), then a +1 that waits alone in the
\* window.
C26_Witness ==
    /\ Called
    /\ args.rapid_descend
    /\ args.nDown = 2
    /\ scores = <<-1, 1, 1>>
    /\ datapoints[2].reversal
    /\ nDown = 2
    /\ level_tracker = <<1>>

\* Length of the run of +1s of h that ends at position k.
RunLength(h, k) ==
    LET before == {j \in 1..k : h[j] = -1}
    IN  k - (IF before = {} THEN 0
             ELSE CHOOSE j \in before : \A i \in before : i <= j)

\* Under a fixed n-down rule, the adjustment made on the k-th response of
\* h: every -1 is a step up, every n-th +1 of a run is a step down.
AdjustmentAt(h, n, k) ==
    IF h[k] = -1 THEN "up"
    ELSE IF RunLength(h, k) % n = 0 THEN "down"
    ELSE "none"

\* The most recent adjustment made over the history h.
PreviousAdjustment(h, n) ==
    LET at == {k \in 1..Len(h) : AdjustmentAt(h, n, k) # "none"}
    IN  IF at = {} THEN "none"
        ELSE AdjustmentAt(h, n, CHOOSE k \in at : \A i \in at : i <= k)

\* The adjustment the call in progress applies, judged before the clamp.
AppliedNow ==
    IF response' = -1 THEN "up"
    ELSE IF response' = 1 /\ AllCorrect(Append(level_tracker, 1), nDown)
         THEN "down"
    ELSE "none"

\* C27 (as claimed): without rapid_descend a trial is flagged as a reversal
\* iff a level adjustment is applied on it whose direction is opposite to
\* that of the most recent earlier adjustment; the first adjustment of a
\* run is never flagged.
C27_ReversalIffDirectionChange ==
    [][(pc = "ready" /\ ~args.rapid_descend) =>
        (NewRecord.reversal <=>
            /\ AppliedNow # "none"
            /\ PreviousAdjustment(scores, nDown) # "none"
            /\ PreviousAdjustment(scores, nDown) # AppliedNow)]_vars

\* C28 (as claimed): with rapid_descend every trial flagged as a reversal,
\* right after the switch-over too, is a trial on which a level adjustment
\* is applied in the same call.
C28_RapidReversalMeansAdjustment ==
    [][(/\ pc = "ready"
        /\ args.rapid_descend
        /\ response' \in {1, -1}
        /\ NewRecord.reversal) => AppliedNow # "none"]_vars

\* C29: termination depends on the reversals, not on the trial count
\* alone: while fewer than n_reversals records are flagged (none at all
\* under a stream of +1s) status stays Running however many trials are run,
\* and once n_reversals are flagged a stream that keeps coming leads to
\* Finished.
C29_TerminationNeedsReversals ==
    /\ [](pc = "ready" /\ ReversalCount(datapoints) < args.nReversals
            => status = TRUE)
    /\ (pc = "ready" /\ ReversalCount(datapoints) >= args.nReversals)
            ~> (status = FALSE)

\* C29 witness: six +1s in a row, twice the number of trials asked for:
\* the level is pinned at min_val, no reversal is flagged and the
\* procedure is still running.
C29_Witness ==
    /\ Called
    /\ Len(scores) >= 6
    /\ \A i \in 1..Len(scores) : scores[i] = 1
    /\ trial_num >= 2 * args.nTrials
    /\ current_level = args.min_val
    /\ ReversalCount(datapoints) = 0
    /\ status = TRUE

\* C22: TrialHandler.next(): the k-th call, 1 <= k <= total_trials, leaves
\* trial_num = k, index = k - 1, remaining_trials = total_trials - k,
\* finished False and trial_info holding row k - 1 (0-based) of the matrix
\* with 'trial' = k; the counting starts from 0 calls, so the rows are
\* served in matrix order, each once.
C22_TrialHandlerNext ==
    [][(th' # th /\ th.trial_num < th.total_trials) =>
        LET k == th.trial_num + 1
        IN  /\ th.index = th.trial_num - 1
            /\ th.remaining_trials = th.total_trials - th.trial_num
            /\ th'.trial_num = k
            /\ th'.index = k - 1
            /\ th'.remaining_trials = th.total_trials - k
            /\ th'.finished = FALSE
            /\ th'.raised = "none"
            /\ th'.trial_info = [row |-> th.trials_df[k], trial |-> k]]_vars

\* C22 witness: all three rows of the matrix 1, 3, 1 have been served.
C22_Witness ==
    /\ th.built
    /\ th.trials_df = <<1, 3, 1>>
    /\ th.trial_num = 3
    /\ th.index = 2
    /\ th.remaining_trials = 0
    /\ th.trial_info = [row |-> 1, trial |-> 3]
    /\ ~th.finished

\* What C23 says of one handler over one step from h to g.
FinishedAfterTheEnd(h, g) ==
    g # h =>
        /\ g.finished <=> g.trial_num > g.total_trials
        /\ g.trial_num > g.total_trials => g.raised = "IndexError"
        /\ g.trial_num <= g.total_trials => g.raised # "IndexError"
        /\ h.finished => g.finished

C24_AdaptiveParameter ==
    [][(ath' # ath /\ ath.trial_num < ath.total_trials) =>
        LET k == ath.trial_num + 1
            given == ath.given_steps
            step == given[Lower(k - 1, Len(given))]
        IN  /\ k = 1 => ath'.parameter = ath.parameter
            /\ (k > 1 /\ ath'.response = 1) =>
                  ath'.parameter = ath.parameter - step
            /\ (k > 1 /\ ath'.response = -1) =>
                  ath'.parameter = ath.parameter + step]_vars

\* C24 witness: the one-entry list [4] on three trials: the first response
\* was ignored and the second and third calls, both -1, each added 4.
C24_Witness ==
    /\ ath.built
    /\ ath.given_steps = <<4>>
    /\ ath.total_trials = 3
    /\ ath.trial_num = 3
    /\ ath.response = -1
    /\ ath.trial_info.step_size = <<4>>
    /\ ath.parameter = 73

\* C30 (as claimed): after any number of next() calls, those past the end
\* of the matrix included, remaining_trials >= 0 and
\* trial_num <= total_trials hold for both handlers.
C30_CountersStayInRange ==
    /\ th.remaining_trials >= 0
    /\ th.trial_num <= th.total_trials
    /\ ath.remaining_trials >= 0
    /\ ath.trial_num <= ath.total_trials

====
